---------------------------- MODULE Spec2Model ----------------------------
(***************************************************************************)
(* FreeQ: a 10-band stereo parametric equaliser with a spectrum analyser.  *)
(*                                                                         *)
(* Numbers.  The program computes in f32.  The model computes in integers: *)
(* gains (dB), Q, samples and filter coefficients are fixed-point values   *)
(* scaled by SCALE (1.0 is 1000), frequencies and sample rates are whole   *)
(* hertz, pointer coordinates are whole pixels, angles are milliradians.   *)
(* A kind parameter's plain value is held in tenths (7.4 is 74) so that    *)
(* f32::round has something to round.                                      *)
(***************************************************************************)
EXTENDS Integers, Sequences, FiniteSets, TLC

VARIABLES
    params,       \* Freeq.params.filters: band -> Filter (freq, gain, q, kind, enabled)
    filters,      \* Freeq.filters: channel -> band -> FilterState
    prev_input,   \* Freeq.prev_input  (DC-removal filter)
    prev_output,  \* Freeq.prev_output (DC-removal filter)
    buffer_a,     \* Freeq.buffer_a: window A
    buffer_b,     \* Freeq.buffer_b: window B
    spectrum,     \* Freeq.spectrum: smoothed magnitudes, of the bins followed
    current,      \* Freeq.current: the write cursor
    sample_rate,  \* Freeq.sample_rate
    host,         \* the host: its buffer layout's sample rate, whether it has activated
                  \* the plugin, and the input stream it delivers
    call,         \* the process call in progress: samples left in its block, the sample
                  \* rate of its layout, the frame it last wrote back
    view,         \* CurveView: selected, last_click; and the curve last painted
    count,        \* bookkeeping: samples processed, compute_fft calls per window,
                  \* parameter events delivered; the bands passed over while they held
                  \* a sample (frozen), those that have run again since (resumed),
                  \* those given other coefficients while they held one (retuned);
                  \* the sample rates set_params has divided by (divisors); where it
                  \* is kept, the DC-filtered sample of every round so far (history)
    harness       \* a FilterKind value `self`, the operations applied to it and the
                  \* string (ret) and number (val) last handed over or returned (the
                  \* pure functions of FilterKind)

vars == <<params, filters, prev_input, prev_output, buffer_a, buffer_b, spectrum,
          current, sample_rate, host, call, view, count, harness>>

plugin_vars == <<params, filters, prev_input, prev_output, buffer_a, buffer_b, spectrum,
                 current, sample_rate, host, call, view, count>>

-----------------------------------------------------------------------------
(* Bounds of the model *)

\* operations applied to one FilterKind value in the harness
MaxTrail == 8

-----------------------------------------------------------------------------
(* FilterKind *)

FilterKinds ==
    {"LowPass", "LowPass2", "LowShelf", "HighPass", "HighPass2", "HighShelf", "Peak", "Notch"}

\* Option<FilterKind>::None, and the outcome of unwrapping it
None == "None"
Panic == "panic"

MAX_ID == 7

uses_gain(kind) ==
    CASE kind = "LowPass" -> FALSE
      [] kind = "LowPass2" -> FALSE
      [] kind = "LowShelf" -> TRUE
      [] kind = "HighPass" -> FALSE
      [] kind = "HighPass2" -> FALSE
      [] kind = "HighShelf" -> TRUE
      [] kind = "Peak" -> TRUE
      [] kind = "Notch" -> FALSE

id(kind) ==
    CASE kind = "LowPass" -> 0
      [] kind = "LowPass2" -> 1
      [] kind = "LowShelf" -> 2
      [] kind = "HighPass" -> 3
      [] kind = "HighPass2" -> 4
      [] kind = "HighShelf" -> 5
      [] kind = "Peak" -> 6
      [] kind = "Notch" -> 7

\* a from_id that turns away every id from MAX_ID on
from_id_below_max(i) ==
    CASE i = 0 -> "LowPass"
      [] i = 1 -> "LowPass2"
      [] i = 2 -> "LowShelf"
      [] i = 3 -> "HighPass"
      [] i = 4 -> "HighPass2"
      [] i = 5 -> "HighShelf"
      [] i = 6 -> "Peak"
      [] OTHER -> None

from_id(i) ==
    CASE i = 0 -> "LowPass"
      [] i = 1 -> "LowPass2"
      [] i = 2 -> "LowShelf"
      [] i = 3 -> "HighPass"
      [] i = 4 -> "HighPass2"
      [] i = 5 -> "HighShelf"
      [] i = 6 -> "Peak"
      [] i = 7 -> "Notch"
      [] OTHER -> None

\* Option::unwrap
unwrap(opt) == IF opt = None THEN Panic ELSE opt

\* Option::unwrap_or
unwrap_or(opt, dflt) == IF opt = None THEN dflt ELSE opt

prev(kind) ==
    LET prev_id == (id(kind) + MAX_ID - 1) % MAX_ID
    IN  unwrap(from_id(prev_id))

next(kind) ==
    LET next_id == (id(kind) + 1) % MAX_ID
    IN  unwrap(from_id(next_id))

\* f32::round on a value held in tenths: to the nearest integer, halves away from zero
round(plain) ==
    IF plain >= 0 THEN (plain + 5) \div 10 ELSE -((5 - plain) \div 10)

\* `as u32` on a float: saturating, so every negative value becomes 0.  (The values
\* the model feeds it are far below u32::MAX, where it would saturate as well.)
as_u32(r) == IF r < 0 THEN 0 ELSE r

\* <FilterKind as Param>::get, a plain value in tenths
kind_get(kind) == id(kind) * 10

\* <FilterKind as Param>::set: the new value of *self
kind_set(plain) == unwrap_or(from_id(as_u32(round(plain))), "Peak")

\* <FilterKind as Param>::to_string
kind_to_string(plain) ==
    LET kind == from_id(as_u32(round(plain)))
    IN  CASE kind = "LowPass" -> "Low Pass"
          [] kind = "LowPass2" -> "Low Pass 2"
          [] kind = "LowShelf" -> "Low Shelf"
          [] kind = "HighPass" -> "High Pass"
          [] kind = "HighPass2" -> "High Pass 2"
          [] kind = "HighShelf" -> "High Shelf"
          [] kind = "Peak" -> "Peak"
          [] kind = "Notch" -> "Notch"
          [] OTHER -> "Peak"

\* a from_string that lacks the arm of the last name
kind_from_string_short(string) ==
    CASE string = "Low Pass" -> kind_get("LowPass")
      [] string = "Low Pass 2" -> kind_get("LowPass2")
      [] string = "Low Shelf" -> kind_get("LowShelf")
      [] string = "High Pass" -> kind_get("HighPass")
      [] string = "High Pass 2" -> kind_get("HighPass2")
      [] string = "High Shelf" -> kind_get("HighShelf")
      [] string = "Peak" -> kind_get("Peak")
      [] OTHER -> kind_get("Peak")

\* <FilterKind as Param>::from_string
kind_from_string(string) ==
    CASE string = "Low Pass" -> kind_get("LowPass")
      [] string = "Low Pass 2" -> kind_get("LowPass2")
      [] string = "Low Shelf" -> kind_get("LowShelf")
      [] string = "High Pass" -> kind_get("HighPass")
      [] string = "High Pass 2" -> kind_get("HighPass2")
      [] string = "High Shelf" -> kind_get("HighShelf")
      [] string = "Peak" -> kind_get("Peak")
      [] string = "Notch" -> kind_get("Notch")
      [] OTHER -> kind_get("Peak")

-----------------------------------------------------------------------------
(* The harness: the operations of FilterKind applied to a value `self` *)

\* plain values (tenths) handed to set and to_string: in range, between two ids,
\* negative, above MAX_ID
Plains == {-30, -6, -4, 0, 10, 14, 15, 20, 30, 40, 50, 60, 70, 74, 76, 80, 990}

\* strings handed to from_string: the 8 names and some that are none of them
Strings ==
    {"Low Pass", "Low Pass 2", "Low Shelf", "High Pass", "High Pass 2", "High Shelf",
     "Peak", "Notch", "", "notch", "Band Pass"}

\* ids handed to from_id: the 8 valid ones and some beyond
Ids == 0 .. MAX_ID + 1 \cup {99}

HarnessInit ==
    harness \in {[self |-> k, start |-> k, trail |-> <<>>, arg |-> 0, ret |-> "",
                  val |-> 0] : k \in FilterKinds}

\* self = self.next()
HNext ==
    /\ Len(harness.trail) < MaxTrail
    /\ harness.self \in FilterKinds
    /\ harness' = [harness EXCEPT !.self = next(@), !.trail = Append(@, "next")]
    /\ UNCHANGED plugin_vars

\* self = self.prev()
HPrev ==
    /\ Len(harness.trail) < MaxTrail
    /\ harness.self \in FilterKinds
    /\ harness' = [harness EXCEPT !.self = prev(@), !.trail = Append(@, "prev")]
    /\ UNCHANGED plugin_vars

\* self.set(plain), on a fresh value
HSet(plain) ==
    /\ harness.trail = <<>>
    /\ harness' = [harness EXCEPT !.self = kind_set(plain), !.trail = <<"set">>,
                                  !.arg = plain]
    /\ UNCHANGED plugin_vars

\* self.to_string(plain), on a fresh value
HToString(plain) ==
    /\ harness.trail = <<>>
    /\ harness' = [harness EXCEPT !.trail = <<"to_string">>, !.arg = plain,
                                  !.ret = kind_to_string(plain)]
    /\ UNCHANGED plugin_vars

\* self.from_string(string), on a fresh value
HFromString(string) ==
    /\ harness.trail = <<>>
    /\ harness' = [harness EXCEPT !.trail = <<"from_string">>, !.ret = string,
                                  !.val = kind_from_string(string)]
    /\ UNCHANGED plugin_vars

\* self.from_string(&s) for the string s that to_string returned
HFromStringBack ==
    /\ harness.trail = <<"to_string">>
    /\ harness' = [harness EXCEPT !.trail = Append(@, "from_string"),
                                  !.val = kind_from_string(harness.ret)]
    /\ UNCHANGED plugin_vars

\* self.id(), on a fresh value
HId ==
    /\ harness.trail = <<>>
    /\ harness' = [harness EXCEPT !.trail = <<"id">>, !.val = id(harness.self)]
    /\ UNCHANGED plugin_vars

\* FilterKind::from_id(i)
HFromId(i) ==
    /\ harness.trail = <<>>
    /\ harness' = [harness EXCEPT !.trail = <<"from_id">>, !.val = i,
                                  !.self = from_id(i)]
    /\ UNCHANGED plugin_vars

\* FilterKind::from_id(i) for the id i that id() returned
HFromIdBack ==
    /\ harness.trail = <<"id">>
    /\ harness' = [harness EXCEPT !.trail = Append(@, "from_id"),
                                  !.self = from_id(harness.val)]
    /\ UNCHANGED plugin_vars

-----------------------------------------------------------------------------
(* Fixed-point arithmetic *)

\* 1.0 in fixed point
SCALE == 10 * 10 * 10

Abs(v) == IF v < 0 THEN -v ELSE v

Min(a, b) == IF a < b THEN a ELSE b

Max(a, b) == IF a > b THEN a ELSE b

\* f32::clamp
clamp(v, lo, hi) == IF v < lo THEN lo ELSE IF v > hi THEN hi ELSE v

\* f32::NAN: a value apart from every number the model computes
NaN == -(2 * 1000 * 1000 * 1000)

\* the result of f32 arithmetic on `operands` that gives `value` when all are numbers:
\* a NaN among the operands makes the result NaN
propagate(operands, value) == IF NaN \in operands THEN NaN ELSE value

\* 2^0 .. 2^30
Pow2Table ==
    <<1, 2, 4, 8, 16, 32, 64, 128, 256, 512, 1024, 2048, 4096, 8192, 16384, 32768,
      65536, 131072, 262144, 524288, 1048576, 2097152, 4194304, 8388608, 16777216,
      33554432, 67108864, 134217728, 268435456, 536870912, 1073741824>>

Pow2(k) == Pow2Table[k + 1]

\* the largest k in lo .. hi with 2^k <= n, for n >= 2^lo
RECURSIVE Log2Search(_, _, _)
Log2Search(n, lo, hi) ==
    IF lo >= hi THEN lo
    ELSE LET mid == (lo + hi + 1) \div 2
         IN  IF Pow2(mid) <= n THEN Log2Search(n, mid, hi) ELSE Log2Search(n, lo, mid - 1)

FloorLog2(n) == Log2Search(n, 0, 30)

\* f32::log2 of a whole number n >= 1, in thousandths: exact at the powers of two,
\* linear between them
log2(n) ==
    LET k == FloorLog2(n)
    IN  k * SCALE + ((n - Pow2(k)) * SCALE) \div Pow2(k)

\* what stands for a float too large to matter (f32 overflows to +inf there)
Huge == Pow2(30)

\* f32::powf(2.0, m) for m in thousandths, in fixed point: the inverse of log2
exp2(m) ==
    LET k == m \div SCALE
        mant == SCALE + (m % SCALE)
    IN  IF k > 19 THEN Huge
        ELSE IF k >= 0 THEN mant * Pow2(k)
        ELSE IF k < -12 THEN 0
        ELSE mant \div Pow2(-k)

-----------------------------------------------------------------------------
(* Filter: one band's parameters *)

NumBands == 10
NumChannels == 2

Bands == 0 .. NumBands - 1
Channels == 0 .. NumChannels - 1

FREQ_MIN == 20
FREQ_MAX == 20000
GAIN_MIN == -18 * SCALE
GAIN_MAX == 18 * SCALE
Q_MIN == SCALE \div 10
Q_MAX == 10 * SCALE

\* f32::log2(FREQ_MAX / FREQ_MIN)
factor == log2(FREQ_MAX \div FREQ_MIN)

\* FREQ_MIN.log2()
log2_freq_min == log2(FREQ_MIN)

frac_to_freq(frac) ==
    exp2((frac * factor) \div SCALE + log2_freq_min) \div SCALE

freq_to_frac(freq) ==
    ((log2(freq) - log2_freq_min) * SCALE) \div factor

\* the enabled flag of a band that Filter::new builds
NewEnabled == TRUE

\* Filter::new(index, count)
Filter_new(index, cnt) ==
    LET frac == ((2 * index + 1) * SCALE) \div (2 * cnt)
        default_q == IF index = 0 \/ index = cnt - 1 THEN SCALE \div 2 ELSE 2 * SCALE
        kind == IF index = 0 THEN "LowShelf"
                ELSE IF index = cnt - 1 THEN "HighShelf"
                ELSE "Peak"
    IN  [freq |-> exp2((frac * factor) \div SCALE + log2_freq_min) \div SCALE,
         gain |-> 0,
         q |-> default_q,
         kind |-> kind,
         enabled |-> NewEnabled]

-----------------------------------------------------------------------------
(* The curve view: geometry *)

CONTROL_RADIUS == 8

\* cx.rect(): the rectangle the layout gives the curve view in the 640 x 500 window
view_rect == [min_x |-> 0, min_y |-> 0, max_x |-> 640, max_y |-> 420]

curve_view_rect(rect) ==
    [min_x |-> rect.min_x + 18, min_y |-> rect.min_y + 18,
     max_x |-> rect.max_x - 54, max_y |-> rect.max_y - 30]

width(rect) == rect.max_x - rect.min_x
height(rect) == rect.max_y - rect.min_y

freq_to_x(freq, rect) ==
    rect.min_x + (freq_to_frac(freq) * width(rect)) \div SCALE

x_to_freq(x, rect) ==
    frac_to_freq(((x - rect.min_x) * SCALE) \div width(rect))

gain_to_y(gain, rect) ==
    LET span == GAIN_MAX - GAIN_MIN
    IN  ((SCALE - ((gain - GAIN_MIN) * SCALE) \div span) * height(rect)) \div SCALE
            + rect.min_y

y_to_gain(y, rect) ==
    LET span == GAIN_MAX - GAIN_MIN
    IN  -GAIN_MIN - ((y - rect.min_y) * span) \div height(rect)

filter_center(filter, rect) ==
    [x |-> freq_to_x(filter.freq, rect), y |-> gain_to_y(filter.gain, rect)]

\* center.distance(local) < CONTROL_RADIUS
within_radius(center, local) ==
    (center.x - local.x) * (center.x - local.x)
        + (center.y - local.y) * (center.y - local.y)
      < CONTROL_RADIUS * CONTROL_RADIUS

\* Option<usize>: None is the empty set, Some(i) is {i}
Some(i) == {i}

the(opt) == CHOOSE i \in opt : TRUE

\* the centre of every band's control
centers(rect) == [i \in Bands |-> filter_center(params[i], rect)]

\* the band a press or a scroll at `local` lands on, given the controls' centres: the
\* first one, in index order, whose control is within reach
hit(ctrs, local) ==
    LET near == {i \in Bands : within_radius(ctrs[i], local)}
    IN  {i \in near : \A j \in near : i <= j}

-----------------------------------------------------------------------------
(* Fixed-point trigonometry *)

\* std::f32::consts::PI, in milliradians
PI == 3142

\* the quotient rounded towards zero, as a rounding of either sign is as likely
Quot(a, b) ==
    IF (a >= 0) = (b > 0) THEN Abs(a) \div Abs(b) ELSE -(Abs(a) \div Abs(b))

\* a * b and a / b in fixed point
Mul(a, b) == Quot(a * b, SCALE)

Div(a, b) == Quot(a * SCALE, b)

\* f32::sin of an angle in [0, PI] milliradians (Bhaskara's rational approximation)
sin_half_turn(x) ==
    LET p == (x * (PI - x)) \div SCALE
        pi2 == (PI * PI) \div SCALE
    IN  (16 * p * SCALE) \div (5 * pi2 - 4 * p)

\* f32::sin, angle in milliradians
sin(x) ==
    LET r == x % (2 * PI)
    IN  IF r <= PI THEN sin_half_turn(r) ELSE -sin_half_turn(r - PI)

\* f32::cos, angle in milliradians
cos(x) == sin(x + PI \div 2)

\* f32::tan, angle in milliradians
tan(x) == IF cos(x) = 0 THEN Huge ELSE Div(sin(x), cos(x))

\* the largest r in lo .. hi with r * r <= n
RECURSIVE SqrtSearch(_, _, _)
SqrtSearch(n, lo, hi) ==
    IF lo >= hi THEN lo
    ELSE LET mid == (lo + hi + 1) \div 2
         IN  IF mid * mid <= n THEN SqrtSearch(n, mid, hi) ELSE SqrtSearch(n, lo, mid - 1)

\* f32::sqrt of a fixed-point value
sqrt(v) == SqrtSearch(v * SCALE, 0, 46340)

\* Complex::norm
norm(re, im) ==
    LET big == Max(Abs(re), Abs(im))
        f == big \div 30000 + 1
        r == re \div f
        i == im \div f
    IN  SqrtSearch(r * r + i * i, 0, 46340) * f

\* f32::powf(10.0, e), e in fixed point
pow10(e) == exp2(Mul(e, log2(10)))

-----------------------------------------------------------------------------
(* FilterState: one band's coefficients and delay elements, per channel *)

\* FilterState::default()
FilterState_default ==
    [b0 |-> 0, b1 |-> 0, b2 |-> 0, a0 |-> 0, a1 |-> 0, a2 |-> 0,
     z1 |-> 0, z2 |-> 0, y1 |-> 0, y2 |-> 0]

\* the raw coefficients of the branch of `kind`, before the division by a0
raw_coefficients(freq, gain, q, kind, rate) ==
    LET a == pow10(gain \div 40)
        w0 == (2 * PI * freq) \div rate
        cos_w0 == cos(w0)
        t == tan(w0 \div 2)
        alpha == Div(sin(w0), 2 * q)
        shelf == 2 * Mul(sqrt(a), Mul(sin(w0) \div 2, Div(SCALE, q)))
    IN  CASE kind = "LowPass" ->
               [b0 |-> t, b1 |-> t, b2 |-> 0,
                a0 |-> t + SCALE, a1 |-> t - SCALE, a2 |-> 0]
          [] kind = "LowPass2" ->
               [b0 |-> (SCALE - cos_w0) \div 2, b1 |-> SCALE - cos_w0,
                b2 |-> (SCALE - cos_w0) \div 2,
                a0 |-> SCALE + alpha, a1 |-> -2 * cos_w0, a2 |-> SCALE - alpha]
          [] kind = "LowShelf" ->
               [b0 |-> Mul(a, (a + SCALE) - Mul(a - SCALE, cos_w0) + shelf),
                b1 |-> 2 * Mul(a, (a - SCALE) - Mul(a + SCALE, cos_w0)),
                b2 |-> Mul(a, (a + SCALE) - Mul(a - SCALE, cos_w0) - shelf),
                a0 |-> (a + SCALE) + Mul(a - SCALE, cos_w0) + shelf,
                a1 |-> -2 * ((a - SCALE) + Mul(a + SCALE, cos_w0)),
                a2 |-> (a + SCALE) + Mul(a - SCALE, cos_w0) - shelf]
          [] kind = "HighPass" ->
               [b0 |-> SCALE, b1 |-> -SCALE, b2 |-> 0,
                a0 |-> t + SCALE, a1 |-> t - SCALE, a2 |-> 0]
          [] kind = "HighPass2" ->
               [b0 |-> (SCALE + cos_w0) \div 2, b1 |-> -(SCALE + cos_w0),
                b2 |-> (SCALE + cos_w0) \div 2,
                a0 |-> SCALE + alpha, a1 |-> -2 * cos_w0, a2 |-> SCALE - alpha]
          [] kind = "HighShelf" ->
               [b0 |-> Mul(a, (a + SCALE) + Mul(a - SCALE, cos_w0) + shelf),
                b1 |-> -2 * Mul(a, (a - SCALE) + Mul(a + SCALE, cos_w0)),
                b2 |-> Mul(a, (a + SCALE) + Mul(a - SCALE, cos_w0) - shelf),
                a0 |-> (a + SCALE) - Mul(a - SCALE, cos_w0) + shelf,
                a1 |-> 2 * ((a - SCALE) - Mul(a + SCALE, cos_w0)),
                a2 |-> (a + SCALE) - Mul(a - SCALE, cos_w0) - shelf]
          [] kind = "Peak" ->
               [b0 |-> SCALE + Mul(alpha, a), b1 |-> -2 * cos_w0,
                b2 |-> SCALE - Mul(alpha, a),
                a0 |-> SCALE + Div(alpha, a), a1 |-> -2 * cos_w0,
                a2 |-> SCALE - Div(alpha, a)]
          [] kind = "Notch" ->
               [b0 |-> SCALE, b1 |-> -2 * cos_w0, b2 |-> SCALE,
                a0 |-> SCALE + alpha, a1 |-> -2 * cos_w0, a2 |-> SCALE - alpha]

\* the delay elements of a state
delay(state) == <<state.z1, state.z2, state.y1, state.y2>>

\* a set_params_inner that clears the filter memory along with the coefficients
set_params_inner_cleared(state, freq, gain, q, kind, rate) ==
    LET raw == raw_coefficients(freq, gain, q, kind, rate)
    IN  [b0 |-> Div(raw.b0, raw.a0), b1 |-> Div(raw.b1, raw.a0),
         b2 |-> Div(raw.b2, raw.a0), a0 |-> raw.a0,
         a1 |-> Div(raw.a1, raw.a0), a2 |-> Div(raw.a2, raw.a0),
         z1 |-> 0, z2 |-> 0, y1 |-> 0, y2 |-> 0]

\* FilterState::set_params_inner: the state after the call.  b0, b1, b2, a1 and a2 are
\* divided by a0; a0 itself keeps the branch's value
set_params_inner(state, freq, gain, q, kind, rate) ==
    LET normalised(raw) == [state EXCEPT !.b0 = Div(raw.b0, raw.a0),
                                         !.b1 = Div(raw.b1, raw.a0),
                                         !.b2 = Div(raw.b2, raw.a0),
                                         !.a0 = raw.a0,
                                         !.a1 = Div(raw.a1, raw.a0),
                                         !.a2 = Div(raw.a2, raw.a0)]
    IN  IF rate = 0
        \* w0 is infinite, its cosine, sine and tangent are NaN, and so is every
        \* coefficient of every branch after the division by a0
        THEN [state EXCEPT !.b0 = NaN, !.b1 = NaN, !.b2 = NaN,
                           !.a0 = NaN, !.a1 = NaN, !.a2 = NaN]
        ELSE CHOOSE set \in {normalised(raw) :
                                raw \in {raw_coefficients(freq, gain, q, kind, rate)}} : TRUE

\* FilterState::set_params
set_params(state, filter, rate) ==
    set_params_inner(state, filter.freq, filter.gain, filter.q, filter.kind, rate)

\* FilterState::process: the output sample
process_out(state, sample) ==
    propagate({state.b0, state.b1, state.b2, state.a1, state.a2,
               sample, state.z1, state.z2, state.y1, state.y2},
              Mul(state.b0, sample) + Mul(state.b1, state.z1) + Mul(state.b2, state.z2)
                  - Mul(state.a1, state.y1) - Mul(state.a2, state.y2))

\* FilterState::process: the state after the call
process_state(state, sample) ==
    [state EXCEPT !.z2 = state.z1, !.z1 = sample,
                  !.y2 = state.y1, !.y1 = process_out(state, sample)]

\* FilterState::gain_at, in thousandths of a dB; reads the state and returns a number
state_gain_at(state, freq, rate) ==
    LET a0 == state.a0
        b0 == Mul(state.b0, a0)
        b1 == Mul(state.b1, a0)
        b2 == Mul(state.b2, a0)
        a1 == Mul(state.a1, a0)
        a2 == Mul(state.a2, a0)
        w == (2 * PI * freq) \div rate
        \* exp(-jw) = cos w - j sin w
        num_re == b0 + Mul(b1, cos(w)) + Mul(b2, cos(2 * w))
        num_im == -Mul(b1, sin(w)) - Mul(b2, sin(2 * w))
        den_re == a0 + Mul(a1, cos(w)) + Mul(a2, cos(2 * w))
        den_im == -Mul(a1, sin(w)) - Mul(a2, sin(2 * w))
        num == norm(num_re, num_im)
        den == norm(den_re, den_im)
    IN  IF den = 0 THEN Huge
        ELSE IF num = 0 THEN -Huge
        ELSE (20 * (log2(num) - log2(den)) * SCALE) \div log2(10)

\* Filter::gain_at: a FilterState of its own, never one of Freeq.filters
Filter_gain_at(filter, freq, rate) ==
    state_gain_at(set_params(FilterState_default, filter, rate), freq, rate)

-----------------------------------------------------------------------------
(* The curve view and the band options: parameter events *)

\* the bands the modelled user and host act on in SpecParams: the first, an inner one,
\* the last
EditBands == {0, 1, NumBands - 1}

\* the band they act on while audio runs (Spec)
LiveBands == {1}

\* where a press or a scroll lands, relative to the centre of a band's control: inside
\* its radius, just outside
Offsets == {[x |-> 5, y |-> 5], [x |-> 9, y |-> 0]}

TargetPoints(ctrs, bands) ==
    {[x |-> ctrs[b].x + o.x, y |-> ctrs[b].y + o.y] : b \in bands, o \in Offsets}

\* where a drag ends: inside the curve rectangle and beyond each of its edges
DragPoints == {[x |-> x, y |-> y] : x \in {-50, 302, 900}, y \in {-40, 111, 600}}

\* e.delta.y of a scroll, in fixed point
ScrollDeltas == {-100 * SCALE, SCALE, 100 * SCALE}

Buttons == {"Primary", "Secondary", "Auxiliary"}

\* the plain values (tenths) the host's automation writes to a kind parameter
AutomationPlains == {-30, 0, 70, 74, 990}

\* CurveView::is_double_click; `fast` says whether less than 500 ms have passed since
\* last_click.  last_click is TRUE when it is Some(..)
is_double_click(fast) == view.last_click /\ fast

last_click_after(fast) == ~(view.last_click /\ fast)

\* Event::PointerPressed, with the controls' centres as they are
PointerPressed(ctrs, local, button, fast) ==
    LET selected == hit(ctrs, local)
    IN  IF selected = {} \/ button = "Auxiliary"
        THEN UNCHANGED <<params, view>>
        ELSE IF button = "Primary"
        THEN /\ view' = [view EXCEPT
                           !.selected = IF is_double_click(fast) THEN {} ELSE selected,
                           !.last_click = last_click_after(fast)]
             /\ params' = IF is_double_click(fast)
                          THEN [params EXCEPT
                                  ![the(selected)] = Filter_new(the(selected), NumBands)]
                          ELSE params
        ELSE /\ params' = [params EXCEPT ![the(selected)].enabled = ~@]
             /\ UNCHANGED view

\* the band's gain after a drag to `local`
moved_gain(filter, local, rect) ==
    IF ~uses_gain(filter.kind) THEN 0
    ELSE clamp(y_to_gain(local.y, rect), GAIN_MIN, GAIN_MAX)

\* the band's frequency after a drag to `local`
moved_freq(local, rect) == clamp(x_to_freq(local.x, rect), FREQ_MIN, FREQ_MAX)

\* Event::PointerMoved
PointerMoved(local) ==
    LET rect == curve_view_rect(view_rect)
        selected == view.selected
    IN  /\ params' = IF selected = {} THEN params
                     ELSE [params EXCEPT
                             ![the(selected)].freq = moved_freq(local, rect),
                             ![the(selected)].gain =
                                 moved_gain(params[the(selected)], local, rect)]
        /\ UNCHANGED view

\* Event::PointerReleased
PointerReleased(button) ==
    /\ view' = IF button = "Primary" THEN [view EXCEPT !.selected = {}] ELSE view
    /\ UNCHANGED params

\* a scroll that leaves the clamp out
scrolled_q_unclamped(q, delta) == q + Mul(Mul(delta, SCALE \div 10), q)

\* the band's Q after a scroll by `delta`
scrolled_q(q, delta) == clamp(q + Mul(Mul(delta, SCALE \div 10), q), Q_MIN, Q_MAX)

\* Event::PointerScrolled, with the controls' centres as they are
PointerScrolled(ctrs, local, delta) ==
    LET selected == hit(ctrs, local)
    IN  /\ params' = IF selected = {} THEN params
                     ELSE [params EXCEPT ![the(selected)].q = scrolled_q(@, delta)]
        /\ UNCHANGED view

\* the band after its "<" button is clicked
prev_kind(filter) ==
    LET kind == prev(filter.kind)
    IN  [filter EXCEPT !.kind = kind, !.gain = IF ~uses_gain(kind) THEN 0 ELSE @]

\* the band after its ">" button is clicked
next_kind(filter) ==
    LET kind == next(filter.kind)
    IN  [filter EXCEPT !.kind = kind, !.gain = IF ~uses_gain(kind) THEN 0 ELSE @]

PrevKindClicked(b) ==
    /\ params' = [params EXCEPT ![b] = prev_kind(@)]
    /\ UNCHANGED view

NextKindClicked(b) ==
    /\ params' = [params EXCEPT ![b] = next_kind(@)]
    /\ UNCHANGED view

\* the host's automation writes a band's kind parameter: Param::set on it
KindAutomated(b, plain) ==
    /\ params' = [params EXCEPT ![b].kind = kind_set(plain)]
    /\ UNCHANGED view

-----------------------------------------------------------------------------
(* The spectrum analyser *)

FFT_SIZE == 4096

\* spectrum values are held in units of 10^-7, so that the floor of 1.0e-6 is 10
SPECTRUM_UNIT == 10 * SCALE

\* A window is held as its nonzero entries: an index outside the
\* domain holds 0.0, as every entry does after vec![0.0; n]
Zeros == [i \in {} |-> 0]

Get(buffer, i) == IF i \in DOMAIN buffer THEN buffer[i] ELSE 0

Put(buffer, i, v) ==
    IF v # 0 THEN (i :> v) @@ buffer
    ELSE [j \in DOMAIN buffer \ {i} |-> buffer[j]]

\* the array of length n that holds f[i] at each index i
Dense(n, f) == [i \in {j \in 0 .. n - 1 : f[j] # 0} |-> f[i]]

\* Freeq::hann_window, in fixed point
hann_window(i, n) == (SCALE - cos((2 * PI * i) \div (n - 1))) \div 2

\* the window after the Hann window is applied in place
windowed(buffer) ==
    Dense(FFT_SIZE, [i \in 0 .. FFT_SIZE - 1 |->
                        IF i \in DOMAIN buffer THEN Mul(buffer[i], hann_window(i, FFT_SIZE))
                        ELSE 0])

\* the samples of the window the transform is evaluated on
FftTaps == {m * (FFT_SIZE \div 8) : m \in 0 .. 7}

RECURSIVE SumOver(_, _)
SumOver(S, f) ==
    IF S = {} THEN 0
    ELSE LET x == CHOOSE x \in S : TRUE IN f[x] + SumOver(S \ {x}, f)

\* the norm of bin k of the forward real transform of `buffer` (realfft's
\* process_with_scratch followed by Complex::norm), in fixed point.  The transform
\* is evaluated on every (FFT_SIZE / 8)-th sample of the window only
rfft_norm(buffer, k) ==
    LET re == SumOver(FftTaps,
                  [n \in FftTaps |-> Mul(Get(buffer, n), cos((2 * PI * ((k * n) % FFT_SIZE)) \div FFT_SIZE))])
        im == SumOver(FftTaps,
                  [n \in FftTaps |-> -Mul(Get(buffer, n), sin((2 * PI * ((k * n) % FFT_SIZE)) \div FFT_SIZE))])
    IN  norm(re, im)

\* a compute_fft that stores the magnitude of a bin in place of mixing it into the
\* bin's value
smoothed_unmixed(old, bin_norm) ==
    Max(Mul(bin_norm, exp2((2 * SCALE) \div FFT_SIZE)) * (SPECTRUM_UNIT \div SCALE), 10)

\* one bin of the smoothed spectrum after compute_fft, from the bin's norm
smoothed(old, bin_norm) ==
    LET nrm == exp2((2 * SCALE) \div FFT_SIZE)
        magnitude == Max(Mul(bin_norm, nrm) * (SPECTRUM_UNIT \div SCALE), 10)
    IN  (old * 6) \div 10 + (magnitude * 4) \div 10

\* the bins of the spectrum (of its FFT_SIZE / 2 + 1) that are followed; compute_fft
\* treats every bin alike
SpectrumBins == {0, 1, 3, 513, FFT_SIZE \div 2}

\* Freeq::compute_fft on a window: the window and the spectrum after the call
compute_fft(buffer, spec) ==
    LET w == windowed(buffer)
    IN  [buffer |-> w,
         spectrum |-> [i \in SpectrumBins |-> smoothed(spec[i], rfft_norm(w, i))]]

-----------------------------------------------------------------------------
(* Freeq: the plugin *)

\* whether process runs band b of a channel: the enabled flag of the band
band_enabled(b) == params[b].enabled

\* a cascade that runs every band, whatever its flag
RECURSIVE cascade_all(_, _, _)
cascade_all(states, sample, b) ==
    IF b >= NumBands THEN [sample |-> sample, states |-> states]
    ELSE cascade_all([states EXCEPT ![b] = process_state(@, sample)],
                     process_out(states[b], sample), b + 1)

\* a cascade that runs the bands from the last to the first
RECURSIVE cascade_reversed(_, _, _)
cascade_reversed(states, sample, b) ==
    IF b >= NumBands THEN [sample |-> sample, states |-> states]
    ELSE IF ~band_enabled(NumBands - 1 - b) THEN cascade_reversed(states, sample, b + 1)
    ELSE cascade_reversed(
             [states EXCEPT ![NumBands - 1 - b] = process_state(@, sample)],
             process_out(states[NumBands - 1 - b], sample), b + 1)

\* one channel's sample through bands b .. NumBands - 1, in order: the sample that
\* comes out and the channel's states afterwards
RECURSIVE cascade(_, _, _)
cascade(states, sample, b) ==
    IF b >= NumBands THEN [sample |-> sample, states |-> states]
    ELSE IF ~band_enabled(b) THEN cascade(states, sample, b + 1)
    ELSE cascade([states EXCEPT ![b] = process_state(@, sample)],
                 process_out(states[b], sample), b + 1)

\* the DC-removal filter's output, from the previous input and output
dc_high_pass_from(prev_in, prev_out, average) ==
    propagate({prev_out, average, prev_in}, Mul(999, prev_out + average - prev_in))

\* the DC-removal filter's output
dc_high_pass(average) == dc_high_pass_from(prev_input, prev_output, average)

\* a first loop of process that empties the filter memories along with setting the
\* coefficients
recomputed_cleared(states, rate) ==
    [c \in Channels |->
        [b \in Bands |-> [set_params(states[c][b], params[b], rate)
                             EXCEPT !.z1 = 0, !.z2 = 0, !.y1 = 0, !.y2 = 0]]]

\* the first loop of process on the filter states `states`: the coefficients of every
\* band, in both channels
recomputed_on(states, rate) ==
    [c \in Channels |-> [b \in Bands |-> set_params(states[c][b], params[b], rate)]]

\* the first loop of process
recomputed(rate) == recomputed_on(filters, rate)

\* what the sample loop of process reads and writes, apart from the parameters
audio ==
    [filters |-> filters, prev_input |-> prev_input, prev_output |-> prev_output,
     buffer_a |-> buffer_a, buffer_b |-> buffer_b, spectrum |-> spectrum,
     current |-> current]

\* Freeq::activate
Activate(rate) ==
    /\ call.left = 0
    /\ sample_rate' = rate
    /\ host' = [active |-> TRUE, rate |-> rate]
    /\ UNCHANGED <<params, filters, prev_input, prev_output, buffer_a, buffer_b,
                   spectrum, current, call, view, count, harness>>

\* Freeq::process is entered with a block of `len` samples: set_params on every state
ProcessBegin(len) ==
    /\ host.active
    /\ call.left = 0
    /\ LET set == recomputed(host.rate)
           \* the bands that get other coefficients while they hold a sample in
           \* their memory
           retuned == {b \in Bands : \E c \in Channels :
                          /\ delay(filters[c][b]) # <<0, 0, 0, 0>>
                          /\ set[c][b] # filters[c][b]}
       IN  /\ filters' = set
           /\ count' = [count EXCEPT !.retuned = @ \cup retuned,
                                     !.divisors = @ \cup {host.rate}]
    /\ call' = [call EXCEPT !.left = len]
    /\ UNCHANGED <<params, prev_input, prev_output, buffer_a, buffer_b, spectrum,
                   current, sample_rate, host, view, harness>>

\* a trigger that fires on the wrap of the cursor only
fft_trigger_on_wrap(cursor) == IF cursor = 0 THEN "a" ELSE "none"

\* a window B that is written at the cursor, like window A
index_b_at_cursor(cursor) == cursor

\* where process writes a sample into window A and into window B, the cursor being
\* at `cursor`
index_a(cursor) == cursor

index_b(cursor) == (cursor + FFT_SIZE \div 2) % FFT_SIZE

\* which window process hands to compute_fft once the cursor has advanced to
\* `cursor`: "a" for compute_fft(false), "b" for compute_fft(true), "none" for no call
fft_trigger(cursor) ==
    IF cursor = 0 THEN "a"
    ELSE IF cursor = FFT_SIZE \div 2 THEN "b"
    ELSE "none"

\* one round of the sample loop of process from the audio state `p`, on the frame
\* `frame` (a sample per channel): the audio state after it, the frame written back
\* and the window handed to compute_fft
sample_round(p, frame) ==
    LET done == [c \in Channels |-> cascade(p.filters[c], frame[c], 0)]
        average == propagate({done[c].sample : c \in Channels},
                             SumOver(Channels, [c \in Channels |-> done[c].sample])
                                 \div NumChannels)
        high_pass == dc_high_pass_from(p.prev_input, p.prev_output, average)
        i_a == index_a(p.current)
        i_b == index_b(p.current)
        written_a == Put(p.buffer_a, i_a, high_pass)
        written_b == Put(p.buffer_b, i_b, high_pass)
        cursor == (p.current + 1) % FFT_SIZE
        trigger == fft_trigger(cursor)
        fft_a == compute_fft(written_a, p.spectrum)
        fft_b == compute_fft(written_b, p.spectrum)
    IN  [audio |-> [filters |-> [c \in Channels |-> done[c].states],
                    prev_input |-> average,
                    prev_output |-> high_pass,
                    buffer_a |-> IF trigger = "a" THEN fft_a.buffer ELSE written_a,
                    buffer_b |-> IF trigger = "b" THEN fft_b.buffer ELSE written_b,
                    spectrum |-> IF trigger = "a" THEN fft_a.spectrum
                                 ELSE IF trigger = "b" THEN fft_b.spectrum
                                 ELSE p.spectrum,
                    current |-> cursor],
         frame |-> [c \in Channels |-> done[c].sample],
         trigger |-> trigger]

\* a second plugin that gets the same frame in a process call of its own, of one
\* sample: the first loop of process, then one round of the sample loop
twin_round(t, frame) ==
    LET after(r) == [audio |-> r.audio,
                     fft_a |-> IF r.trigger = "a" THEN t.fft_a + 1 ELSE t.fft_a,
                     fft_b |-> IF r.trigger = "b" THEN t.fft_b + 1 ELSE t.fft_b]
        begun == [t.audio EXCEPT !.filters = recomputed_on(@, host.rate)]
    IN  CHOOSE ended \in {after(r) : r \in {sample_round(p, frame) : p \in {begun}}} : TRUE

\* one round of the sample loop of process, on the frame `frame` (a sample per channel)
ProcessSample(frame) ==
    \E r \in {sample_round(audio, frame)} :
    LET high_pass == r.audio.prev_output
        trigger == r.trigger
        \* the bands this round passes over while they hold a sample in their memory
        held == {b \in Bands : /\ ~band_enabled(b)
                               /\ \E c \in Channels : delay(filters[c][b]) # <<0, 0, 0, 0>>}
    IN  /\ call.left > 0
        /\ filters' = r.audio.filters
        /\ call' = [left |-> call.left - 1, frame |-> r.frame]
        /\ prev_input' = r.audio.prev_input
        /\ prev_output' = r.audio.prev_output
        /\ current' = r.audio.current
        /\ buffer_a' = r.audio.buffer_a
        /\ buffer_b' = r.audio.buffer_b
        /\ spectrum' = r.audio.spectrum
        /\ count' = [count EXCEPT !.samples = @ + 1,
                                  !.fft_a = IF trigger = "a" THEN @ + 1 ELSE @,
                                  !.fft_b = IF trigger = "b" THEN @ + 1 ELSE @,
                                  !.history = {Put(h, count.samples, high_pass) : h \in @},
                                  !.twin = {twin_round(t, frame) : t \in @},
                                  !.frozen = @ \cup held,
                                  !.resumed = @ \cup {b \in count.frozen : band_enabled(b)}]
        /\ UNCHANGED <<params, sample_rate, host, view, harness>>

\* the point of a band's response curve the painter is followed at (of its 256)
PaintPoints == {128}

\* the painter's curve of one band: gain_at at each point
painted(filter) ==
    [i \in PaintPoints |->
        LET frac == (i * SCALE) \div 255
        IN  Filter_gain_at(filter, frac_to_freq(frac), 24000 + 24 * frac)]

\* a painter that evaluates gain_at on the states of the audio side, leaving its
\* own sample rate's coefficients in them
Paint_on_live ==
    /\ view' = [view EXCEPT !.curve = [b \in Bands |-> painted(params[b])]]
    /\ filters' = [c \in Channels |-> [b \in Bands |->
                      set_params(filters[c][b], params[b], 24000 + 12 * SCALE)]]
    /\ UNCHANGED <<params, prev_input, prev_output, buffer_a, buffer_b,
                   spectrum, current, sample_rate, host, call, count, harness>>

\* the painter draws the bands' response curves
Paint ==
    /\ view' = [view EXCEPT !.curve = [b \in Bands |-> painted(params[b])]]
    /\ UNCHANGED <<params, filters, prev_input, prev_output, buffer_a, buffer_b,
                   spectrum, current, sample_rate, host, call, count, harness>>

-----------------------------------------------------------------------------
(* Bounds and inputs of the specifications *)

\* parameter events delivered in SpecParams
MaxEvents == 3

\* parameter events delivered while audio runs (Spec)
MaxLiveEvents == 2

\* samples processed in Spec
MaxSamples == 3

\* samples processed in SpecFft: two rounds of the cursor and some more
MaxFftSamples == 8200

\* the sample rates the host activates the plugin with
SampleRates == {48000}

\* samples processed in SpecRate
MaxRateSamples == 3

\* the sample rates of the buffer layouts a host may hand over, valid or not
AnyRates == {-48000, 0, 44100, 48000}

\* the block lengths the host calls process with
BlockSizes == {1, 2}

\* samples processed in SpecSplit: up to the first call of compute_fft and beyond
MaxSplitSamples == 2100

\* parameter changes before the stream starts in SpecSplit
MaxSplitEvents == 1

\* the block lengths the host cuts the stream into in SpecSplit
SplitBlockSizes == {1, 3}

\* the band whose kind the user changes in SpecSplit
SplitBands == {8}

\* the frames (a sample per channel) the host delivers in Spec
Frames == {[c \in Channels |-> 0], [c \in Channels |-> SCALE \div (c + 1)]}

\* the n-th frame of the stream the host delivers in SpecFft: silence, with a click
\* of its own height every 512 samples
stream_frame(n) ==
    [c \in Channels |-> IF n % 512 = 0 THEN (n \div 512 + 1) * 100 - c * 50 ELSE 0]

-----------------------------------------------------------------------------
(* Specifications *)

\* the bookkeeping at the start: nothing counted, no history kept
initial_count ==
    [samples |-> 0, fft_a |-> 0, fft_b |-> 0, events |-> 0,
     frozen |-> {}, resumed |-> {}, retuned |-> {}, divisors |-> {}, history |-> {},
     twin |-> {}]

\* the audio state of a plugin that has processed nothing, and its count of
\* compute_fft calls
twin_new ==
    [audio |-> [filters |-> [c \in Channels |-> [b \in Bands |-> FilterState_default]],
                prev_input |-> 0, prev_output |-> 0, buffer_a |-> Zeros,
                buffer_b |-> Zeros, spectrum |-> [i \in SpectrumBins |-> 0],
                current |-> 0],
     fft_a |-> 0, fft_b |-> 0]

\* VstPlugin::new, with the bookkeeping `counting`
PluginInitCounting(counting) ==
    /\ params = [b \in Bands |-> Filter_new(b, NumBands)]
    /\ filters = [c \in Channels |-> [b \in Bands |-> FilterState_default]]
    /\ prev_input = 0
    /\ prev_output = 0
    /\ buffer_a = Zeros
    /\ buffer_b = Zeros
    /\ spectrum = [i \in SpectrumBins |-> 0]
    /\ current = 0
    /\ sample_rate = 44100
    /\ host = [active |-> FALSE, rate |-> None]
    /\ call = [left |-> 0, frame |-> [c \in Channels |-> 0]]
    /\ view = [selected |-> {}, last_click |-> FALSE, curve |-> <<>>]
    /\ count = counting

\* VstPlugin::new
PluginInit == PluginInitCounting(initial_count)

HarnessIdle ==
    harness = [self |-> "Peak", start |-> "Peak", trail |-> <<>>, arg |-> 0, ret |-> "",
               val |-> 0]

\* an event of the user interface or of the host's automation is delivered, while
\* fewer than `budget` have been; it leaves the audio side alone
Delivered(budget) ==
    /\ count.events < budget
    /\ count' = [count EXCEPT !.events = @ + 1]
    /\ UNCHANGED <<filters, prev_input, prev_output, buffer_a, buffer_b, spectrum,
                   current, sample_rate, host, call, harness>>

Pressed(budget, bands) ==
    /\ Delivered(budget)
    /\ LET ctrs == centers(curve_view_rect(view_rect))
       IN  \E local \in TargetPoints(ctrs, bands), button \in Buttons, fast \in BOOLEAN :
              PointerPressed(ctrs, local, button, fast)

Moved(budget, bands) ==
    /\ Delivered(budget)
    /\ \E local \in DragPoints : PointerMoved(local)

Released(budget, bands) ==
    /\ Delivered(budget)
    /\ \E button \in Buttons : PointerReleased(button)

Scrolled(budget, bands) ==
    /\ Delivered(budget)
    /\ LET ctrs == centers(curve_view_rect(view_rect))
       IN  \E local \in TargetPoints(ctrs, bands), delta \in ScrollDeltas :
              PointerScrolled(ctrs, local, delta)

PrevClicked(budget, bands) ==
    /\ Delivered(budget)
    /\ \E b \in bands : PrevKindClicked(b)

NextClicked(budget, bands) ==
    /\ Delivered(budget)
    /\ \E b \in bands : NextKindClicked(b)

Automated(budget, bands) ==
    /\ Delivered(budget)
    /\ \E b \in bands, plain \in AutomationPlains : KindAutomated(b, plain)

ParamEvent(budget, bands) ==
    \/ Pressed(budget, bands)
    \/ Moved(budget, bands)
    \/ Released(budget, bands)
    \/ Scrolled(budget, bands)
    \/ PrevClicked(budget, bands)
    \/ NextClicked(budget, bands)
    \/ Automated(budget, bands)

\* the pure functions of FilterKind
KindInit == PluginInit /\ HarnessInit

KindNext ==
    \/ HNext
    \/ HPrev
    \/ \E plain \in Plains : HSet(plain)
    \/ \E plain \in Plains : HToString(plain)
    \/ \E string \in Strings : HFromString(string)
    \/ HFromStringBack
    \/ HId
    \/ \E i \in Ids : HFromId(i)
    \/ HFromIdBack

SpecKind == KindInit /\ [][KindNext]_vars

\* the parameter layer alone: the user interface and the automation
ParamsInit == PluginInit /\ HarnessIdle

ParamsNext == ParamEvent(MaxEvents, EditBands)

SpecParams == ParamsInit /\ [][ParamsNext]_vars

\* the analyser over a long stream, with the parameters left alone
FftInit ==
    /\ PluginInitCounting([initial_count EXCEPT !.history = {Zeros}])
    /\ HarnessIdle

FftNext ==
    \/ Activate(48000)
    \/ \E len \in BlockSizes : count.samples + len <= MaxFftSamples /\ ProcessBegin(len)
    \/ ProcessSample(stream_frame(count.samples))

SpecFft == FftInit /\ [][FftNext]_vars

\* one stream, cut into blocks in every way, beside a second plugin that gets it in
\* blocks of one sample; the parameters change before the stream starts only
SplitInit ==
    /\ PluginInitCounting([initial_count EXCEPT !.twin = {twin_new}])
    /\ HarnessIdle

SplitNext ==
    \/ ~host.active /\ NextClicked(MaxSplitEvents, SplitBands)
    \/ Activate(48000)
    \/ \E len \in SplitBlockSizes :
          count.samples + len <= MaxSplitSamples /\ ProcessBegin(len)
    \/ ProcessSample(stream_frame(count.samples))

SpecSplit == SplitInit /\ [][SplitNext]_vars

\* set_params on a fresh state, over the parameters' ranges
CoefFreqs == {FREQ_MIN, 1000, FREQ_MAX}

CoefGains == {GAIN_MIN, 0, GAIN_MAX}

CoefQs == {Q_MIN, SCALE, Q_MAX}

CoefRates == {44100, 48000, 96000}

CoefInit ==
    /\ PluginInit
    /\ harness = [self |-> FilterState_default, start |-> <<>>, trail |-> <<>>,
                  arg |-> 0, ret |-> "", val |-> 0]

\* self.set_params(&filter, rate)
CSetParams(filter, rate) ==
    /\ harness.trail = <<>>
    /\ harness' = [harness EXCEPT !.self = set_params(@, filter, rate),
                                  !.start = [filter |-> filter, rate |-> rate],
                                  !.trail = <<"set_params">>]
    /\ UNCHANGED plugin_vars

CoefNext ==
    \E kind \in FilterKinds, freq \in CoefFreqs, gain \in CoefGains, q \in CoefQs,
       rate \in CoefRates :
        CSetParams([freq |-> freq, gain |-> gain, q |-> q, kind |-> kind,
                    enabled |-> TRUE], rate)

SpecCoef == CoefInit /\ [][CoefNext]_vars

\* activation with any buffer layout, and the blocks processed under it
RateInit == PluginInit /\ HarnessIdle

RateNext ==
    \/ \E rate \in AnyRates : Activate(rate)
    \/ \E len \in BlockSizes : count.samples + len <= MaxRateSamples /\ ProcessBegin(len)
    \/ \E frame \in Frames : ProcessSample(frame)

SpecRate == RateInit /\ [][RateNext]_vars

\* the plugin: the host's audio thread and the user interface
Init == PluginInit /\ HarnessIdle

Next ==
    \/ \E rate \in SampleRates : Activate(rate)
    \/ \E len \in BlockSizes : count.samples + len <= MaxSamples /\ ProcessBegin(len)
    \/ \E frame \in Frames : ProcessSample(frame)
    \/ Paint
    \/ ParamEvent(MaxLiveEvents, LiveBands)

Spec == Init /\ [][Next]_vars

-----------------------------------------------------------------------------
(* The analyser's schedule *)

\* C1: over any stream of samples, in blocks of any length, compute_fft has run on
\* window A once for every time the write cursor wrapped to 0 and on window B once
\* for every time it reached FFT_SIZE / 2, and never otherwise: the calls alternate
\* between the windows, FFT_SIZE / 2 samples apart, two to every FFT_SIZE samples
C1_FftSchedule ==
    /\ current = count.samples % FFT_SIZE
    /\ count.fft_a = count.samples \div FFT_SIZE
    /\ count.fft_b = (count.samples + FFT_SIZE \div 2) \div FFT_SIZE
    /\ count.fft_b - count.fft_a \in {0, 1}

\* two rounds of the cursor have been processed: both windows were transformed twice
C1_Witness == count.fft_a >= 2 /\ count.fft_b >= 2 /\ count.samples = 2 * FFT_SIZE

-----------------------------------------------------------------------------
(* Navigation between the kinds *)

\* C2: for each of the 8 kinds k, next() applied 8 times to k gives k again
C2_NextEightTimes ==
    harness.trail = [i \in 1 .. MAX_ID + 1 |-> "next"] => harness.self = harness.start

\* C3: for each of the 8 kinds k, k.prev().next() is k, and neither call panics
C3_PrevThenNext ==
    /\ harness.self # Panic
    /\ harness.trail = <<"prev", "next">> => harness.self = harness.start

\* the kinds a band passes through while its ">" button is clicked n times
RECURSIVE kinds_by_next(_, _)
kinds_by_next(filter, n) ==
    IF n = 0 THEN {filter.kind}
    ELSE {filter.kind} \cup kinds_by_next(next_kind(filter), n - 1)

\* the kinds a band passes through while its "<" button is clicked n times
RECURSIVE kinds_by_prev(_, _)
kinds_by_prev(filter, n) ==
    IF n = 0 THEN {filter.kind}
    ELSE {filter.kind} \cup kinds_by_prev(prev_kind(filter), n - 1)

\* C4: from whatever kind a band has, each of the 8 kinds, Notch among them, comes
\* up while the band's ">" button is clicked repeatedly, and likewise while its "<"
\* button is
C4_EveryKindReachable ==
    \A b \in Bands :
        /\ kinds_by_next(params[b], 2 * MAX_ID) = FilterKinds
        /\ kinds_by_prev(params[b], 2 * MAX_ID) = FilterKinds

-----------------------------------------------------------------------------
(* The parameters' ranges *)

\* C5: after any sequence of parameter writes, the automation's setter of the kind
\* among them, every band whose kind does not use the gain has a gain of 0
C5_GainZeroWithoutGain ==
    \A b \in Bands : ~uses_gain(params[b].kind) => params[b].gain = 0

\* C6: after any sequence of drags, scrolls and double-click resets every band's
\* frequency, gain and Q lie within their ranges
C6_ValuesWithinRange ==
    \A b \in Bands :
        /\ FREQ_MIN <= params[b].freq /\ params[b].freq <= FREQ_MAX
        /\ GAIN_MIN <= params[b].gain /\ params[b].gain <= GAIN_MAX
        /\ Q_MIN <= params[b].q /\ params[b].q <= Q_MAX

\* a band that was dragged or scrolled sits on an edge of a range
C6_Witness ==
    /\ count.events >= 2
    /\ \E b \in Bands :
          /\ params[b] # Filter_new(b, NumBands)
          /\ \/ params[b].freq \in {FREQ_MIN, FREQ_MAX}
             \/ params[b].gain \in {GAIN_MIN, GAIN_MAX}
             \/ params[b].q \in {Q_MIN, Q_MAX}

\* C7: a plain value whose rounded id is outside 0 .. 7, negative or too large,
\* sets the kind to Peak without a panic, and to_string of it gives "Peak"
C7_OutOfRangeIsPeak ==
    (round(harness.arg) < 0 \/ round(harness.arg) > MAX_ID)
        => /\ harness.trail = <<"set">> => harness.self = "Peak"
           /\ harness.trail = <<"to_string">> => harness.ret = "Peak"

-----------------------------------------------------------------------------
(* The filter memory *)

\* the enabled bands, in the order process runs them
enabled_bands == SelectSeq([i \in 1 .. NumBands |-> i - 1], LAMBDA b : params[b].enabled)

\* a sample through the bands of `seq`, one after the other
RECURSIVE through(_, _, _)
through(states, sample, seq) ==
    IF seq = <<>> THEN sample
    ELSE through(states, process_out(states[Head(seq)], sample), Tail(seq))

\* C8: process passes over a disabled band: in no step do the delay elements of a
\* disabled band change, in either channel; a round of the sample loop puts out each
\* channel's sample as the enabled bands alone make it; and a band that runs, one
\* that was re-enabled too, computes its output from the delay elements it held
C8_DisabledBandSkipped ==
    [][/\ \A c \in Channels, b \in Bands :
             ~params[b].enabled => delay(filters'[c][b]) = delay(filters[c][b])
       /\ call'.left = call.left - 1 =>
             /\ \E frame \in Frames : \A c \in Channels :
                    call'.frame[c] = through(filters[c], frame[c], enabled_bands)
             /\ \A c \in Channels, b \in Bands :
                    params[b].enabled =>
                       /\ filters'[c][b].z2 = filters[c][b].z1
                       /\ filters'[c][b].y2 = filters[c][b].y1
                       /\ filters'[c][b].y1 = process_out(filters[c][b], filters'[c][b].z1)
      ]_vars

\* band 1 held a sample in its memory while it was passed over, was enabled again
\* and has run since
C8_Witness == 1 \in count.resumed /\ params[1].enabled /\ delay(filters[0][1]) # <<0, 0, 0, 0>>

\* C9: set_params leaves z1, z2, y1 and y2 of every state as they are, whatever the
\* edit of the parameters before it: the delay elements of a state change in a round
\* of the sample loop only, where FilterState::process writes them
C9_DelaysWrittenByProcessOnly ==
    [][(\E c \in Channels, b \in Bands : delay(filters'[c][b]) # delay(filters[c][b]))
          => call'.left = call.left - 1]_vars

\* a block has begun after band 1 was given another kind between two blocks: its
\* states hold the new coefficients and the memory of the samples before
C9_Witness ==
    /\ 1 \in count.retuned
    /\ params[1].kind # Filter_new(1, NumBands).kind
    /\ \A c \in Channels :
          /\ delay(filters[c][1]) # <<0, 0, 0, 0>>
          /\ filters[c][1] = set_params(filters[c][1], params[1], host.rate)

\* C10: a step in which the painter's gain_at calls draw a new curve changes no
\* coefficient and no delay element of the 20 states, nor anything else the audio
\* side reads or writes
C10_GainAtIsPure ==
    [][view'.curve # view.curve =>
          UNCHANGED <<filters, prev_input, prev_output, buffer_a, buffer_b, spectrum,
                      current, call, params, host>>]_vars

\* the curves of the edited bands were drawn in the middle of a block, with samples
\* in the filter memory
C10_Witness ==
    /\ call.left > 0
    /\ count.samples >= 1
    /\ view.curve = [b \in Bands |-> painted(params[b])]
    /\ view.curve[1] # painted(Filter_new(1, NumBands))
    /\ delay(filters[0][1]) # <<0, 0, 0, 0>>

-----------------------------------------------------------------------------
(* Activation *)

\* C11: a sample rate of 0 or below is turned away when the plugin is activated: the
\* plugin never holds such a rate as its sample rate, and no process call computes
\* coefficients by dividing by one
C11_NonPositiveRateRejected ==
    /\ sample_rate > 0
    /\ \A rate \in count.divisors : rate > 0

-----------------------------------------------------------------------------
(* The coefficients *)

\* C12: after set_params, for any of the 8 kinds, all six coefficients have been
\* divided by the raw a0 of the branch, so that a0 is exactly 1
C12_UnitA0 == harness.trail = <<"set_params">> => harness.self.a0 = SCALE

-----------------------------------------------------------------------------
(* Names and ids of the kinds *)

\* the display names of the 8 kinds
KindNames ==
    {"Low Pass", "Low Pass 2", "Low Shelf", "High Pass", "High Pass 2", "High Shelf",
     "Peak", "Notch"}

\* C13: for each of the ids 0 .. 7, from_string of the string that to_string gives
\* for the id is the id again; and from_string of a string that is none of the 8
\* names gives the id of Peak, 6, without an error
C13_NamesRoundTrip ==
    /\ (harness.trail = <<"to_string", "from_string">>
            /\ harness.arg \in {10 * i : i \in 0 .. MAX_ID})
          => harness.val = harness.arg
    /\ (harness.trail = <<"from_string">> /\ harness.ret \notin KindNames)
          => harness.val = 10 * 6

\* the id of Notch went through to_string and from_string and came back
C13_Witness ==
    /\ harness.trail = <<"to_string", "from_string">>
    /\ harness.arg = 10 * MAX_ID
    /\ harness.ret = "Notch"
    /\ harness.val = 10 * MAX_ID

\* C14: from_id(k.id()) is Some(k) for each of the 8 kinds k, from_id(i).id() is i
\* for each id i in 0 .. 7, and from_id is None for every id beyond 7, like 99
C14_IdsBijective ==
    /\ harness.trail = <<"id", "from_id">> => harness.self = harness.start
    /\ harness.trail = <<"from_id">> =>
          IF harness.val \in 0 .. 7
          THEN harness.self \in FilterKinds /\ id(harness.self) = harness.val
          ELSE harness.self = None
    /\ harness.trail = <<"id">> => harness.val \in 0 .. 7

\* Notch gave its id, 7, and from_id gave Notch back for it
C14_Witness ==
    /\ harness.trail = <<"id", "from_id">>
    /\ harness.start = "Notch"
    /\ harness.val = 7
    /\ harness.self = "Notch"

-----------------------------------------------------------------------------
(* The cascade *)

\* the six coefficients of a state
coefficients(state) == <<state.b0, state.b1, state.b2, state.a0, state.a1, state.a2>>

\* C15: in a round of the sample loop each channel's sample goes through the enabled
\* bands in the order 0 to 9: an enabled band takes in what the enabled bands before
\* it made of the channel's input, with the states of that channel alone, and the
\* channel puts out what the last of them gives; and when a block begins, the two
\* states of a band get the same coefficients, those of the band's parameters
C15_SeriesPerChannel ==
    [][/\ call'.left = call.left - 1 =>
             \E frame \in Frames : \A c \in Channels :
                 /\ \A k \in 1 .. Len(enabled_bands) :
                        filters'[c][enabled_bands[k]].z1 =
                            through(filters[c], frame[c], SubSeq(enabled_bands, 1, k - 1))
                 /\ call'.frame[c] = through(filters[c], frame[c], enabled_bands)
       /\ call'.left > call.left =>
             \A b \in Bands :
                 /\ coefficients(filters'[0][b]) = coefficients(filters'[1][b])
                 /\ \A c \in Channels :
                        filters'[c][b] = set_params(filters[c][b], params[b], host.rate)
      ]_vars

\* a frame with another sample in each channel has gone through the bands, band 1
\* has changed it and band 2 has taken in what band 1 put out
C15_Witness ==
    /\ call.frame[0] # call.frame[1]
    /\ \A b \in Bands : params[b].enabled
    /\ \A c \in Channels :
          /\ filters[c][1].y1 # filters[c][1].z1
          /\ filters[c][2].z1 = filters[c][1].y1
          /\ filters[c][1].z1 = filters[c][0].y1

-----------------------------------------------------------------------------
(* The analyser's windows *)

\* C16: when compute_fft is called on a window, A or B, the window holds the 4096
\* most recent DC-filtered samples at the indices 0 .. 4095, the oldest first (and
\* zeros for the samples before the first, as in window B's first call): every
\* entry was written since the window's previous call
C16_WindowHoldsLatest ==
    [][\A h \in count'.history :
          /\ count'.fft_a = count.fft_a + 1 =>
                \A i \in 0 .. FFT_SIZE - 1 :
                    Get(Put(buffer_a, current, prev_output'), i)
                        = Get(h, count'.samples - FFT_SIZE + i)
          /\ count'.fft_b = count.fft_b + 1 =>
                \A i \in 0 .. FFT_SIZE - 1 :
                    Get(Put(buffer_b, (current + FFT_SIZE \div 2) % FFT_SIZE, prev_output'), i)
                        = Get(h, count'.samples - FFT_SIZE + i)
      ]_vars

\* both windows have been transformed, window A after 4096 samples, clicks among
\* them
C16_Witness ==
    /\ count.fft_a >= 1
    /\ count.fft_b >= 1
    /\ count.samples >= FFT_SIZE
    /\ \A h \in count.history : Cardinality(DOMAIN h) >= 8
    /\ count.history # {}

-----------------------------------------------------------------------------
(* The partition of the stream into blocks *)

\* C17: however the host cuts a stream into process calls, the plugin is in the
\* state that a plugin fed the same stream in calls of one sample is in: the same
\* filter memories and coefficients, DC-filter state, cursor, windows and spectrum,
\* and compute_fft has run as often on each window, after every sample
C17_PartitionIndependent ==
    count.samples > 0 =>
        \A t \in count.twin :
            /\ t.audio = audio
            /\ t.fft_a = count.fft_a
            /\ t.fft_b = count.fft_b

\* the stream has passed the first call of compute_fft inside a block of several
\* samples, through a band that is not at its default, its memory in use
C17_Witness ==
    /\ count.twin # {}
    /\ count.fft_b = 1
    /\ call.left > 1
    /\ \E b \in SplitBands : params[b] # Filter_new(b, NumBands)
                            /\ delay(filters[0][b]) # <<0, 0, 0, 0>>
    /\ \E i \in SpectrumBins : spectrum[i] > 0

-----------------------------------------------------------------------------
(* The smoothed spectrum *)

\* the magnitude compute_fft finds in bin i of the window `buffer`: the norm of the
\* bin of the windowed buffer's transform, times 2^(2/FFT_SIZE)
magnitude_of(buffer, i) ==
    Mul(rfft_norm(windowed(buffer), i), exp2((2 * SCALE) \div FFT_SIZE))
        * (SPECTRUM_UNIT \div SCALE)

\* C18: the spectrum changes in compute_fft only.  A step that does not bring the
\* cursor to 0 or to FFT_SIZE / 2 leaves every bin as it was; a round that brings it
\* there makes every bin 0.6 times its old value plus 0.4 times the larger of the
\* bin's magnitude in the window just completed and the floor of 1.0e-6; the bins
\* stay the same bins, none is ever negative, and all are above 0 once compute_fft
\* has run
C18_SpectrumSmoothedByFftOnly ==
    [][LET triggers == current' # current /\ current' \in {0, FFT_SIZE \div 2}
           window == IF current' = 0
                     THEN Put(buffer_a, index_a(current), prev_output')
                     ELSE Put(buffer_b, index_b(current), prev_output')
       IN  /\ ~triggers => spectrum' = spectrum
           /\ triggers =>
                 \A i \in SpectrumBins :
                     spectrum'[i] = (spectrum[i] * 6) \div 10
                                        + (Max(magnitude_of(window, i), 10) * 4) \div 10
           /\ DOMAIN spectrum' = SpectrumBins
           /\ \A i \in SpectrumBins : spectrum'[i] >= 0
           /\ count'.fft_a + count'.fft_b > 0 => \A i \in SpectrumBins : spectrum'[i] > 0
      ]_vars

\* compute_fft has run on both windows, a bin has risen above the floor and lies
\* between the values of two calls, and the cursor has moved on
C18_Witness ==
    /\ count.fft_a >= 1
    /\ count.fft_b >= 1
    /\ current \notin {0, FFT_SIZE \div 2}
    /\ \E i \in SpectrumBins : spectrum[i] > 10
    /\ \A i \in SpectrumBins : spectrum[i] > 0

=============================================================================
